---------------------------- MODULE Spec2Model ----------------------------
(***************************************************************************)
(* The self-expiring result cache of http-math (src/main.go, the version   *)
(* with the mutex, lines 139-384): a hash for lookups plus a recency list  *)
(* for cleanup, used by getAnswer under one lock per request.              *)
(*                                                                         *)
(* The clients of the cache that are modelled:                             *)
(*   Spec     the request path: goroutines running getAnswer step by step  *)
(*            (lock, cleanup, get, compute+set, deferred unlock) while     *)
(*            the clock advances between any two steps;                    *)
(*   FairSpec the request path with every goroutine asking for one key,    *)
(*            under the fairness of the scheduler and of sync.Mutex;       *)
(*   SpecAPI  a serial caller of the cache's methods get, set and cleanup  *)
(*            in any order (the sequences the contract is stated over);    *)
(*   SpecMath the request path serving requests that fail, one of them in  *)
(*            json.Marshal after getAnswer has returned;                   *)
(*   SpecKey  goroutines entering getAnswer, for the keys alone;           *)
(*   SpecBatch    one batch of concurrent requests for one key;            *)
(*   SpecNoMutex  the request path of the version that has no mutex        *)
(*                (src/unnamed/part_002);                                  *)
(*   SpecEquiv    serial requests served by the list version and by the    *)
(*                earlier version that scans the whole map (lines 386-558).*)
(*                                                                         *)
(* A pointer to a list element is modelled by the element's position in    *)
(* the list, kept up to date by every removal and move.                    *)
(*                                                                         *)
(* Time is the monotonic clock of time.Now(), in whole seconds.  A float64 *)
(* answer is modelled by the integer it equals: the operands of the        *)
(* requests are chosen so that every result is an exact integer, and a     *)
(* result beyond MaxFloat rounds to an infinity, as float64 arithmetic     *)
(* does.                                                                   *)
(***************************************************************************)
EXTENDS Integers, Sequences, FiniteSets, TLC

\* ---------------------------------------------------------------- bounds
\* goroutines serving requests concurrently
NumProcs == 2
\* how many times the clock may advance in one behaviour
MaxTicks == 2
\* SpecAPI: set is not called while the list holds this many elements
MaxList == 2

\* the largest finite float64 of the model (math.MaxFloat64)
MaxFloat == 4

\* the clock advances by one of these many seconds
Delays == {30, 35}

Procs == 1..NumProcs

\* const cacheExpireSeconds = 60
cacheExpireSeconds == 60

\* the requests that reach getAnswer: <<op, x, y>>
Requests ==
  { <<"add", 1, 2>>, <<"divide", 2, 1>>, <<"divide", 1, 0>>, <<"mod", 1, 2>> }

\* the requests of the goroutines that all store one key
SameKey == { <<"add", 1, 2>> }

\* the result of a lookup that found nothing: var val float64
ZeroVal == 0

None == [at |-> -1, born |-> -1, written |-> {}]

\* no call made yet; after holds, for a get, the sets made in a row just
\* before it, and pre, for a get or a cleanup, the cache it was called on
NoCall ==
  [op |-> "none", key |-> "", val |-> 0, found |-> FALSE, at |-> -1,
   prevOp |-> "none", after |-> <<>>,
   pre |-> [hash |-> <<>>, list |-> <<>>]]

\* no request served yet
NoOut ==
  [list |-> [answer |-> 0, cached |-> FALSE],
   scan |-> [answer |-> 0, cached |-> FALSE],
   before |-> {}]

VARIABLES
  now,      \* the monotonic clock read by time.Now()
  nticks,   \* how many times the clock has advanced
  cache,    \* the cacheStruct: [hash, list]
  mutex,    \* cache.mutex: 0 when free, else the goroutine holding it
  pc,       \* each goroutine's position in getAnswer
  loc,      \* each goroutine's locals in getAnswer, and history: tC, when its
            \* cleanup read the clock; prev, the touch of its key before its
            \* get; start, the cache when it took the lock; view, the cache
            \* as its own last step left it
  touch,    \* history: key -> when it was last stored or hit (at), when it
            \* was last stored (born), the values stored under it (written)
  last,     \* SpecAPI history: the call just made and what it returned,
            \* forgotten when the clock advances
  setRun,   \* SpecAPI history: the sets made in a row just now, the last two
  lastSet,  \* SpecAPI history: key -> the value and time of its last set, and
            \* whether the key was in the hash when it was made (over)
  flat,     \* SpecEquiv: the hash of the earlier Cache, which has no list
  out       \* SpecEquiv: what the last request was answered by each version,
            \* and the keys the list version held before it

vars ==
  <<now, nticks, cache, mutex, pc, loc, touch, last, setRun, lastSet, flat, out>>

\* ------------------------------------------------------------- the cache
\* a Go map with no key
EmptyMap == [k \in {} |-> 0]

\* newCache(): an empty hash and an initialised, empty list
newCache == [hash |-> EmptyMap, list |-> <<>>]

\* a key that forgets which operand came first
reqStringSorted(op, x, y) ==
  op \o ";" \o ToString(IF x <= y THEN x ELSE y) \o ";" \o ToString(IF x <= y THEN y ELSE x)

\* fmt.Sprintf("%s;%v;%v", op, x, y)
reqString(op, x, y) == op \o ";" \o ToString(x) \o ";" \o ToString(y)

\* list.Remove(e) for the element at position i
RemoveAt(list, i) == [j \in 1..(Len(list) - 1) |-> IF j < i THEN list[j] ELSE list[j + 1]]

\* where the element at position p is once the element at position i has been
\* moved to the back of a list of n elements
Moved(p, i, n) == IF p = i THEN n ELSE IF p > i THEN p - 1 ELSE p

\* delete(c.hash, key)
MapDelete(hash, key) == [k \in (DOMAIN hash) \ {key} |-> hash[k]]

\* c.hash[key] = entry
MapPut(hash, key, e) ==
  [k \in (DOMAIN hash) \cup {key} |-> IF k = key THEN e ELSE hash[k]]

\* a hit that updates the time of the entry and leaves it where it is in the
\* list: no c.list.MoveToBack(item.element)
TouchInPlace(c, i, t) == [c EXCEPT !.list[i].time = t]

\* item.time = t; c.list.MoveToBack(item.element), item being the entry at
\* position i
TouchAndMoveToBack(c, i, t) ==
  [hash |-> [k \in DOMAIN c.hash |-> Moved(c.hash[k], i, Len(c.list))],
   list |-> Append(RemoveAt(c.list, i), [c.list[i] EXCEPT !.time = t])]

\* a get that refreshes a hit by inserting the entry again, as a new element
\* at the back of the list, and leaves the element it found where it was
getReinsert(c, key, t) ==
  IF key \in DOMAIN c.hash
  THEN LET i == c.hash[key] IN
       [c |-> [hash |-> MapPut(c.hash, key, Len(c.list) + 1),
               list |-> Append(c.list, [c.list[i] EXCEPT !.time = t])],
        val |-> c.list[i].answer, exists |-> TRUE]
  ELSE [c |-> c, val |-> ZeroVal, exists |-> FALSE]

\* a get whose timestamp update is lost: the entry keeps its old time
getStale(c, key, t) ==
  IF key \in DOMAIN c.hash
  THEN LET i == c.hash[key] IN
       [c |-> TouchAndMoveToBack(c, i, c.list[i].time),
        val |-> c.list[i].answer, exists |-> TRUE]
  ELSE [c |-> c, val |-> ZeroVal, exists |-> FALSE]

\* a get that forgets val = item.answer: a hit returns the zero value
getNoVal(c, key, t) ==
  IF key \in DOMAIN c.hash
  THEN [c |-> TouchAndMoveToBack(c, c.hash[key], t), val |-> ZeroVal, exists |-> TRUE]
  ELSE [c |-> c, val |-> ZeroVal, exists |-> FALSE]

\* a get that returns true for exists whether or not the key is in the hash
getAlwaysFound(c, key, t) ==
  IF key \in DOMAIN c.hash
  THEN LET i == c.hash[key] IN
       [c |-> TouchAndMoveToBack(c, i, t),
        val |-> c.list[i].answer, exists |-> TRUE]
  ELSE [c |-> c, val |-> ZeroVal, exists |-> TRUE]

\* func (c *cacheStruct) get(key string) (float64, bool), with time.Now() = t
get(c, key, t) ==
  IF key \in DOMAIN c.hash
  THEN LET i == c.hash[key] IN
       [c |-> TouchAndMoveToBack(c, i, t),
        val |-> c.list[i].answer, exists |-> TRUE]
  ELSE [c |-> c, val |-> ZeroVal, exists |-> FALSE]

\* a set that leaves a key already in the hash as it is
setKeepFirst(c, key, value, t) ==
  IF key \in DOMAIN c.hash THEN c
  ELSE [hash |-> MapPut(c.hash, key, Len(c.list) + 1),
        list |-> Append(c.list, [key |-> key, answer |-> value, time |-> t])]

\* func (c *cacheStruct) set(key string, value float64), with time.Now() = t
set(c, key, value, t) ==
  [hash |-> MapPut(c.hash, key, Len(c.list) + 1),
   list |-> Append(c.list, [key |-> key, answer |-> value, time |-> t])]

\* value.time.Before(expireTime)
Before(time, expireTime) == time < expireTime

\* c.list.Remove(e); delete(c.hash, value.key), e being the front element:
\* every element left moves one position forward
RemoveFront(c) ==
  LET h == MapDelete(c.hash, Head(c.list).key) IN
  [hash |-> [k \in DOMAIN h |-> h[k] - 1], list |-> Tail(c.list)]

RECURSIVE sweep(_, _)
\* the loop of cleanup: remove the expired elements at the front, and stop at
\* the first element that is not expired
sweep(c, expireTime) ==
  IF c.list = <<>> THEN c
  ELSE IF Before(Head(c.list).time, expireTime)
       THEN sweep(RemoveFront(c), expireTime)
       ELSE c

\* a cleanup whose expiry is 60 minutes instead of 60 seconds
cleanupMinutes(c, t) == sweep(c, t - 60 * cacheExpireSeconds)

\* a cleanup that expires an entry as soon as its age reaches the TTL
cleanupAtTTL(c, t) == sweep(c, t - cacheExpireSeconds + 1)

\* func (c *cacheStruct) cleanup(), with time.Now() = t
cleanup(c, t) == sweep(c, t - cacheExpireSeconds)

\* the float64 values that are not finite: +Inf, -Inf and NaN
PosInf == MaxFloat + 1

NegInf == 0 - PosInf

NaN == PosInf + 1

\* the float64 an exact result v is rounded to: past the largest finite value
\* the result of an arithmetic operation is an infinity
Float(v) ==
  IF v > MaxFloat THEN PosInf ELSE IF v < 0 - MaxFloat THEN NegInf ELSE v

\* the switch of getAnswer: the answer, or the error it returns
compute(op, x, y) ==
  CASE op = "add"      -> [answer |-> Float(x + y), err |-> ""]
    [] op = "subtract" -> [answer |-> Float(x - y), err |-> ""]
    [] op = "multiply" -> [answer |-> Float(x * y), err |-> ""]
    [] op = "divide"   -> IF y = 0
                          THEN [answer |-> 0, err |-> "Cannot divide by zero"]
                          ELSE [answer |-> Float(x \div y), err |-> ""]
    [] OTHER           -> [answer |-> 0, err |-> "Invalid operation"]

\* the entry the hash maps key to (key must be in the hash)
EntryOf(c, key) == c.list[c.hash[key]]

\* func getAnswer(op, x, y) (float64, bool, error) run alone on cache c: its
\* cleanup reads the clock at tC, its get or set at tT
getAnswer(c, r, tC, tT) ==
  LET key == reqString(r[1], r[2], r[3])
      g == get(cleanup(c, tC), key, tT)
      m == compute(r[1], r[2], r[3])
  IN IF g.exists THEN [c |-> g.c, answer |-> g.val, exists |-> TRUE, err |-> ""]
     ELSE IF m.err # "" THEN [c |-> g.c, answer |-> 0, exists |-> FALSE, err |-> m.err]
     ELSE [c |-> set(g.c, key, m.answer, tT), answer |-> m.answer,
           exists |-> FALSE, err |-> ""]

\* ------------------------------------------- the earlier cache: a map only
\* the TTL of the earlier Cache: expireTime := now.Add(time.Second * -60)
ScanExpireSeconds == 60

\* func (c *Cache) Init()
CacheInit == EmptyMap

\* a Get that reads the entry without updating item.Time
CacheGetNoTouch(h, key, t) ==
  IF key \in DOMAIN h
  THEN [h |-> h, val |-> h[key].Answer, exists |-> TRUE]
  ELSE [h |-> h, val |-> ZeroVal, exists |-> FALSE]

\* func (c *Cache) Get(key string) (val float64, exists bool), time.Now() = t
CacheGet(h, key, t) ==
  IF key \in DOMAIN h
  THEN [h |-> [h EXCEPT ![key].Time = t], val |-> h[key].Answer, exists |-> TRUE]
  ELSE [h |-> h, val |-> ZeroVal, exists |-> FALSE]

\* func (c *Cache) Set(key string, value float64), with time.Now() = t
CacheSet(h, key, value, t) == MapPut(h, key, [Answer |-> value, Time |-> t])

\* func (c *Cache) Cleanup(), with time.Now() = t: the range over the whole
\* map deletes every entry whose Time is before expireTime
CacheCleanup(h, t) ==
  [k \in { j \in DOMAIN h : ~Before(h[j].Time, t - ScanExpireSeconds) } |-> h[k]]

\* ------------------------------------------------------ the request path
\* the locals of a goroutine that is not in getAnswer
Idle ==
  [req |-> <<"", 0, 0>>, key |-> "", tC |-> -1, exists |-> FALSE, answer |-> 0,
   err |-> "", prev |-> None, start |-> newCache, view |-> newCache]

Init ==
  /\ now = 0
  /\ nticks = 0
  /\ cache = newCache
  /\ mutex = 0
  /\ pc = [p \in Procs |-> "idle"]
  /\ loc = [p \in Procs |-> Idle]
  /\ touch = EmptyMap
  /\ last = NoCall
  /\ setRun = <<>>
  /\ lastSet = EmptyMap
  /\ flat = CacheInit
  /\ out = NoOut

\* the clock advances
Tick ==
  /\ nticks < MaxTicks
  /\ \E d \in Delays : now' = now + d
  /\ nticks' = nticks + 1
  /\ last' = NoCall
  /\ UNCHANGED <<cache, mutex, pc, loc, touch, setRun, lastSet, flat, out>>

\* getAnswer(op, x, y) is called with a request of R: reqString is built
\* before the lock
CallOf(p, R) ==
  /\ pc[p] = "idle"
  /\ \E r \in R :
       loc' = [loc EXCEPT ![p] = [Idle EXCEPT !.req = r,
                                             !.key = reqString(r[1], r[2], r[3])]]
  /\ pc' = [pc EXCEPT ![p] = "lock"]
  /\ UNCHANGED <<now, nticks, cache, mutex, touch, last, setRun, lastSet, flat, out>>

Call(p) == CallOf(p, Requests)

\* a lock that does not wait for the mutex to be free
LockNoWait(p) ==
  /\ pc[p] = "lock"
  /\ mutex' = p
  /\ pc' = [pc EXCEPT ![p] = "cleanup"]
  /\ loc' = [loc EXCEPT ![p].start = cache, ![p].view = cache]
  /\ UNCHANGED <<now, nticks, cache, touch, last, setRun, lastSet, flat, out>>

\* cache.lock(): c.mutex.Lock()
Lock(p) ==
  /\ pc[p] = "lock"
  /\ mutex = 0
  /\ mutex' = p
  /\ pc' = [pc EXCEPT ![p] = "cleanup"]
  /\ loc' = [loc EXCEPT ![p].start = cache, ![p].view = cache]
  /\ UNCHANGED <<now, nticks, cache, touch, last, setRun, lastSet, flat, out>>

\* cache.cleanup()
Cleanup(p) ==
  /\ pc[p] = "cleanup"
  /\ cache' = cleanup(cache, now)
  /\ loc' = [loc EXCEPT ![p].tC = now, ![p].view = cache']
  /\ pc' = [pc EXCEPT ![p] = "get"]
  /\ UNCHANGED <<now, nticks, mutex, touch, last, setRun, lastSet, flat, out>>

\* a get whose hit branch falls through to the miss branch: the answer is
\* computed and set again although the key was found
GetFallsThrough(p) ==
  /\ pc[p] = "get"
  /\ LET key == loc[p].key
         g == get(cache, key, now)
     IN /\ cache' = g.c
        /\ loc' = [loc EXCEPT ![p].view = g.c,
                              ![p].exists = g.exists,
                              ![p].answer = g.val,
                              ![p].prev = IF key \in DOMAIN touch THEN touch[key] ELSE None]
        /\ touch' = IF g.exists
                    THEN [touch EXCEPT ![key].at = now]
                    ELSE touch
        /\ pc' = [pc EXCEPT ![p] = "compute"]
  /\ UNCHANGED <<now, nticks, mutex, last, setRun, lastSet, flat, out>>

\* cacheAnswer, exists := cache.get(reqString)
Get(p) ==
  /\ pc[p] = "get"
  /\ LET key == loc[p].key
         g == get(cache, key, now)
     IN /\ cache' = g.c
        /\ loc' = [loc EXCEPT ![p].view = g.c,
                              ![p].exists = g.exists,
                              ![p].answer = g.val,
                              ![p].prev = IF key \in DOMAIN touch THEN touch[key] ELSE None]
        /\ touch' = IF g.exists
                    THEN [touch EXCEPT ![key].at = now]
                    ELSE touch
        /\ pc' = [pc EXCEPT ![p] = IF g.exists THEN "ret" ELSE "compute"]
  /\ UNCHANGED <<now, nticks, mutex, last, setRun, lastSet, flat, out>>

\* a miss branch that stores the result of the lookup instead of the answer:
\* cache.set(reqString, cacheAnswer)
ComputeStoresLookup(p) ==
  /\ pc[p] = "compute"
  /\ LET r == loc[p].req
         key == loc[p].key
         m == compute(r[1], r[2], r[3])
     IN IF m.err # ""
        THEN /\ loc' = [loc EXCEPT ![p].answer = 0, ![p].err = m.err]
             /\ UNCHANGED <<cache, touch>>
        ELSE /\ cache' = set(cache, key, loc[p].answer, now)
             /\ loc' = [loc EXCEPT ![p].answer = m.answer, ![p].view = cache']
             /\ touch' = [k \in (DOMAIN touch) \cup {key} |->
                            IF k = key
                            THEN [at |-> now, born |-> now,
                                  written |-> {loc[p].answer} \cup
                                    (IF key \in DOMAIN touch THEN touch[key].written ELSE {})]
                            ELSE touch[k]]
  /\ pc' = [pc EXCEPT ![p] = "ret"]
  /\ UNCHANGED <<now, nticks, mutex, last, setRun, lastSet, flat, out>>

\* the miss branch: the switch, then cache.set(reqString, answer)
Compute(p) ==
  /\ pc[p] = "compute"
  /\ LET r == loc[p].req
         key == loc[p].key
         m == compute(r[1], r[2], r[3])
     IN IF m.err # ""
        THEN /\ loc' = [loc EXCEPT ![p].answer = 0, ![p].err = m.err]
             /\ UNCHANGED <<cache, touch>>
        ELSE /\ cache' = set(cache, key, m.answer, now)
             /\ loc' = [loc EXCEPT ![p].answer = m.answer, ![p].view = cache']
             /\ touch' = [k \in (DOMAIN touch) \cup {key} |->
                            IF k = key
                            THEN [at |-> now, born |-> now,
                                  written |-> {m.answer} \cup
                                    (IF key \in DOMAIN touch THEN touch[key].written ELSE {})]
                            ELSE touch[k]]
  /\ pc' = [pc EXCEPT ![p] = "ret"]
  /\ UNCHANGED <<now, nticks, mutex, last, setRun, lastSet, flat, out>>

\* a return that leaves the mutex locked when getAnswer returns an error: an
\* unlock written before the last return instead of deferred
ReturnLockedOnError(p) ==
  /\ pc[p] = "ret"
  /\ mutex' = IF loc[p].err # "" THEN mutex ELSE 0
  /\ pc' = [pc EXCEPT ![p] = "idle"]
  /\ loc' = [loc EXCEPT ![p] = Idle]
  /\ UNCHANGED <<now, nticks, cache, touch, last, setRun, lastSet, flat, out>>

\* a return that leaves the mutex locked after a hit: an unlock written at
\* the end of the miss branch instead of deferred
ReturnLockedOnHit(p) ==
  /\ pc[p] = "ret"
  /\ mutex' = IF loc[p].exists THEN mutex ELSE 0
  /\ pc' = [pc EXCEPT ![p] = "idle"]
  /\ loc' = [loc EXCEPT ![p] = Idle]
  /\ UNCHANGED <<now, nticks, cache, touch, last, setRun, lastSet, flat, out>>

\* return: the deferred cache.unlock() runs
Return(p) ==
  /\ pc[p] = "ret"
  /\ mutex' = 0
  /\ pc' = [pc EXCEPT ![p] = "idle"]
  /\ loc' = [loc EXCEPT ![p] = Idle]
  /\ UNCHANGED <<now, nticks, cache, touch, last, setRun, lastSet, flat, out>>

Step(p) == Call(p) \/ Lock(p) \/ Cleanup(p) \/ Get(p) \/ Compute(p) \/ Return(p)

Next == Tick \/ \E p \in Procs : Step(p)

Spec == Init /\ [][Next]_vars

\* ------------------------------------------ one batch of concurrent requests
\* every goroutine has called getAnswer for the one key, on an empty cache
InitBatch ==
  /\ now = 0
  /\ nticks = 0
  /\ cache = newCache
  /\ mutex = 0
  /\ pc = [p \in Procs |-> "lock"]
  /\ \E r \in SameKey :
       loc = [p \in Procs |-> [Idle EXCEPT !.req = r,
                                          !.key = reqString(r[1], r[2], r[3])]]
  /\ touch = EmptyMap
  /\ last = NoCall
  /\ setRun = <<>>
  /\ lastSet = EmptyMap
  /\ flat = CacheInit
  /\ out = NoOut

\* return, with the deferred cache.unlock(); what the call returned is kept
Finish(p) ==
  /\ pc[p] = "ret"
  /\ mutex' = 0
  /\ pc' = [pc EXCEPT ![p] = "done"]
  /\ UNCHANGED <<now, nticks, cache, loc, touch, last, setRun, lastSet, flat, out>>

NextBatch ==
  \/ Tick
  \/ \E p \in Procs : Lock(p) \/ Cleanup(p) \/ Get(p) \/ Compute(p) \/ Finish(p)

SpecBatch == InitBatch /\ [][NextBatch]_vars

\* ------------------------------------- the request path without the mutex
\* x / y of float64: a division by zero is no error, it gives an infinity or NaN
Quotient(x, y) ==
  IF y # 0 THEN Float(x \div y)
  ELSE IF x > 0 THEN PosInf ELSE IF x < 0 THEN NegInf ELSE NaN

\* the switch of the doMath that has no mutex (src/unnamed/part_002): no case
\* returns an error, and an op of no case leaves var answer float64 at zero
switchOp(op, x, y) ==
  CASE op = "add"      -> Float(x + y)
    [] op = "subtract" -> Float(x - y)
    [] op = "multiply" -> Float(x * y)
    [] op = "divide"   -> Quotient(x, y)
    [] OTHER           -> 0

\* a request of R reaches doMath, which takes no lock
CallNoLock(p, R) ==
  /\ pc[p] = "idle"
  /\ \E r \in R :
       loc' = [loc EXCEPT ![p] = [Idle EXCEPT !.req = r,
                                             !.key = reqString(r[1], r[2], r[3]),
                                             !.start = cache, !.view = cache]]
  /\ pc' = [pc EXCEPT ![p] = "cleanup"]
  /\ UNCHANGED <<now, nticks, cache, mutex, touch, last, setRun, lastSet, flat, out>>

\* the miss branch of that doMath: the switch, then cache.set(reqString, answer)
ComputeNoCheck(p) ==
  /\ pc[p] = "compute"
  /\ LET r == loc[p].req
         key == loc[p].key
         answer == switchOp(r[1], r[2], r[3])
     IN /\ cache' = set(cache, key, answer, now)
        /\ loc' = [loc EXCEPT ![p].answer = answer, ![p].view = cache']
        /\ touch' = [k \in (DOMAIN touch) \cup {key} |->
                       IF k = key
                       THEN [at |-> now, born |-> now,
                             written |-> {answer} \cup
                               (IF key \in DOMAIN touch THEN touch[key].written ELSE {})]
                       ELSE touch[k]]
  /\ pc' = [pc EXCEPT ![p] = "ret"]
  /\ UNCHANGED <<now, nticks, mutex, last, setRun, lastSet, flat, out>>

\* that doMath writes its response and returns
ReturnNoLock(p) ==
  /\ pc[p] = "ret"
  /\ pc' = [pc EXCEPT ![p] = "idle"]
  /\ loc' = [loc EXCEPT ![p] = Idle]
  /\ UNCHANGED <<now, nticks, cache, mutex, touch, last, setRun, lastSet, flat, out>>

\* concurrent requests for one key: the cleanup, get and set of the requests
\* interleave as separate steps
NextNoMutex ==
  \/ Tick
  \/ \E p \in Procs :
       CallNoLock(p, SameKey) \/ Cleanup(p) \/ Get(p) \/ ComputeNoCheck(p) \/ ReturnNoLock(p)

SpecNoMutex == Init /\ [][NextNoMutex]_vars

\* ------------------------------------- serial requests to both versions
\* the doMath of the list version (src/unnamed/part_002) run alone on cache c:
\* its cleanup reads the clock at tC, its get or set at tT
doMathList(c, r, tC, tT) ==
  LET key == reqString(r[1], r[2], r[3])
      g == get(cleanup(c, tC), key, tT)
      answer == switchOp(r[1], r[2], r[3])
  IN IF g.exists THEN [c |-> g.c, answer |-> g.val, cached |-> TRUE]
     ELSE [c |-> set(g.c, key, answer, tT), answer |-> answer, cached |-> FALSE]

\* the doMath of the earlier version (src/main.go:491-544) run alone on hash h
doMathScan(h, r, tC, tT) ==
  LET key == reqString(r[1], r[2], r[3])
      g == CacheGet(CacheCleanup(h, tC), key, tT)
      answer == switchOp(r[1], r[2], r[3])
  IN IF g.exists THEN [h |-> g.h, answer |-> g.val, cached |-> TRUE]
     ELSE [h |-> CacheSet(g.h, key, answer, tT), answer |-> answer, cached |-> FALSE]

\* the requests the four routes /add, /subtract, /multiply, /divide pass on
Routes == { <<"add", 1, 2>>, <<"divide", 2, 1>>, <<"divide", 1, 0>> }

\* one request is served by both versions, which read the same clock: d
\* seconds pass between the cleanup of the request and its get or set
Serve ==
  \E r \in Routes, d \in {0} \cup Delays :
    /\ d > 0 => nticks < MaxTicks
    /\ LET a == doMathList(cache, r, now, now + d)
           b == doMathScan(flat, r, now, now + d)
       IN /\ cache' = a.c
          /\ flat' = b.h
          /\ out' = [list |-> [answer |-> a.answer, cached |-> a.cached],
                     scan |-> [answer |-> b.answer, cached |-> b.cached],
                     before |-> DOMAIN cache.hash]
    /\ now' = now + d
    /\ nticks' = IF d > 0 THEN nticks + 1 ELSE nticks
    /\ UNCHANGED <<mutex, pc, loc, touch, last, setRun, lastSet>>

NextEquiv == Tick \/ Serve

SpecEquiv == Init /\ [][NextEquiv]_vars

\* the paths and operands of requests whose keys are compared: op is whatever
\* follows the first "/" of the path, so it may hold the separator itself
KeyOps == { "add", "add;1", "divide" }

KeyOperands == { 1, 2, 11, 12 }

KeyRequests == KeyOps \X KeyOperands \X KeyOperands

\* goroutines entering getAnswer, each with the key of its request
NextKey == \E p \in Procs : CallOf(p, KeyRequests)

SpecKey == Init /\ [][NextKey]_vars

\* json.Marshal(data) of doMath: encoding/json returns an UnsupportedValueError
\* for a float64 that is an infinity or NaN
jsonMarshal(x, y, answer) ==
  IF \A v \in {x, y, answer} : v \in (0 - MaxFloat)..MaxFloat
  THEN ""
  ELSE "json: unsupported value"

\* func doMath: the status of the response to the request of goroutine p, whose
\* getAnswer is about to return (op is not empty and x, y have been parsed)
doMath(p) ==
  IF loc[p].err # "" THEN "error"
  ELSE IF jsonMarshal(loc[p].req[2], loc[p].req[3], loc[p].answer) # "" THEN "error"
  ELSE "ok"

\* requests with every kind of failure: a product past the largest float64, a
\* division by zero, an operation that does not exist; and one that succeeds
MathRequests ==
  { <<"multiply", MaxFloat, 2>>, <<"divide", 1, 0>>, <<"mod", 1, 2>>, <<"add", 1, 2>> }

NextMath ==
  \/ Tick
  \/ \E p \in Procs :
       CallOf(p, MathRequests) \/ Lock(p) \/ Cleanup(p) \/ Get(p) \/ Compute(p) \/ Return(p)

\* the request path serving MathRequests
SpecMath == Init /\ [][NextMath]_vars

\* ------------------------------------------------- the cache called directly
\* the keys and values a direct caller passes
ApiKeys == { reqString(r[1], r[2], r[3]) : r \in {q \in Requests : compute(q[1], q[2], q[3]).err = ""} }

ApiValues == { compute(r[1], r[2], r[3]).answer : r \in {q \in Requests : compute(q[1], q[2], q[3]).err = ""} }

\* c.set(key, value)
ApiSet ==
  /\ Len(cache.list) < MaxList
  /\ \E key \in ApiKeys, value \in ApiValues :
       /\ cache' = set(cache, key, value, now)
       /\ last' = [NoCall EXCEPT !.op = "set", !.key = key, !.val = value, !.at = now]
       /\ setRun' = IF setRun # <<>> /\ setRun[1].key = key
                    THEN <<setRun[Len(setRun)], [key |-> key, val |-> value]>>
                    ELSE <<[key |-> key, val |-> value]>>
       /\ lastSet' = [k \in (DOMAIN lastSet) \cup {key} |->
                        IF k = key
                        THEN [val |-> value, at |-> now, over |-> key \in DOMAIN cache.hash]
                        ELSE lastSet[k]]
  /\ UNCHANGED <<now, nticks, mutex, pc, loc, touch, flat, out>>

\* c.get(key)
ApiGet ==
  /\ \E key \in ApiKeys :
       LET g == get(cache, key, now) IN
       /\ cache' = g.c
       /\ last' = [op |-> "get", key |-> key, val |-> g.val, found |-> g.exists,
                   at |-> now, prevOp |-> last.op,
                   after |-> setRun, pre |-> cache]
  /\ setRun' = <<>>
  /\ UNCHANGED <<now, nticks, mutex, pc, loc, touch, lastSet, flat, out>>

\* c.cleanup()
ApiCleanup ==
  /\ cache' = cleanup(cache, now)
  /\ last' = [NoCall EXCEPT !.op = "cleanup", !.at = now, !.pre = cache]
  /\ setRun' = <<>>
  /\ UNCHANGED <<now, nticks, mutex, pc, loc, touch, lastSet, flat, out>>

NextAPI == Tick \/ ApiSet \/ ApiGet \/ ApiCleanup

SpecAPI == Init /\ [][NextAPI]_vars


\* ------------------------------------------------- claims: the request path
\* goroutine p is between cache.lock() and cache.unlock()
InCS(p) == pc[p] \in {"cleanup", "get", "compute", "ret"}

\* the get of p's request has been made
Looked(p) == pc[p] \in {"compute", "ret"}

\* p's key had been stored before p's get
Stored(p) == loc[p].prev # None

\* the age of p's key when p's cleanup read the clock: the time since the key
\* was last stored or hit
Age(p) == loc[p].tC - loc[p].prev.at

\* what op(x, y) is for p's request
Fresh(p) == compute(loc[p].req[1], loc[p].req[2], loc[p].req[3])

\* C1: a request whose cleanup runs more than 60 s after its key was last
\* stored or hit finds no entry: it reports cached = false, recomputes the
\* answer and stores it again.
C1_ExpiredIsRecomputed ==
  \A p \in Procs :
    (Looked(p) /\ Stored(p) /\ Age(p) > cacheExpireSeconds) =>
      /\ ~loc[p].exists
      /\ pc[p] = "ret" =>
           /\ loc[p].err = ""
           /\ loc[p].answer = Fresh(p).answer
           /\ loc[p].key \in DOMAIN cache.hash
           /\ EntryOf(cache, loc[p].key).answer = Fresh(p).answer
           /\ EntryOf(cache, loc[p].key).time >= loc[p].tC

C1_Witness ==
  \E p \in Procs :
    /\ pc[p] = "ret" /\ Stored(p) /\ Age(p) > cacheExpireSeconds
    /\ ~loc[p].exists /\ loc[p].key \in DOMAIN cache.hash

C7_Serial ==
  /\ \A p, q \in Procs : (InCS(p) /\ InCS(q)) => p = q
  /\ \A p \in Procs : InCS(p) => (mutex = p /\ loc[p].view = cache)
  /\ \A p \in Procs :
       pc[p] = "ret" =>
         LET tT == IF loc[p].err = "" THEN EntryOf(cache, loc[p].key).time
                   ELSE loc[p].tC
         IN getAnswer(loc[p].start, loc[p].req, loc[p].tC, tT) =
              [c |-> cache, answer |-> loc[p].answer, exists |-> loc[p].exists,
               err |-> loc[p].err]

\* one goroutine is about to return a stored answer while another waits
C7_Witness ==
  \E p, q \in Procs :
    /\ pc[p] = "ret" /\ loc[p].err = "" /\ loc[p].start # cache
    /\ pc[q] = "lock" /\ loc[q].key = loc[p].key

\* C9 as claimed: a lookup of a key whose age has reached 60 s, an age of
\* exactly 60 s included, is answered as not found.
C9_ExpiredAtTTL ==
  \A p \in Procs :
    (Looked(p) /\ Stored(p) /\ Age(p) >= cacheExpireSeconds) => ~loc[p].exists

\* C9 amended: an entry is expired once its age exceeds the TTL: a stored key
\* is found exactly when its age at the cleanup is at most 60 s, so at an age
\* of exactly 60 s it is still found.
C9_ExpiredPastTTL ==
  \A p \in Procs :
    (Looked(p) /\ Stored(p)) =>
      (loc[p].exists <=> Age(p) <= cacheExpireSeconds)

C9_Witness ==
  \E p \in Procs :
    /\ Looked(p) /\ Stored(p) /\ Age(p) = cacheExpireSeconds
    /\ loc[p].exists /\ loc[p].answer = Fresh(p).answer

\* every goroutine that has the lock goes on to unlock it (weak fairness of
\* its steps), and sync.Mutex hands the lock to a goroutine that keeps
\* waiting for it (starvation mode: strong fairness of Lock)
Fairness ==
  \A p \in Procs :
    /\ WF_vars(Cleanup(p) \/ Get(p) \/ Compute(p) \/ Return(p))
    /\ SF_vars(Lock(p))

NextSame ==
  \/ Tick
  \/ \E p \in Procs :
       CallOf(p, SameKey) \/ Lock(p) \/ Cleanup(p) \/ Get(p) \/ Compute(p) \/ Return(p)

\* concurrent requests for one key, under the scheduling above
FairSpec == Init /\ [][NextSame]_vars /\ Fairness

\* C8: concurrent requests never deadlock and never leave a corrupted entry:
\* every call of getAnswer returns, and a request that finds its key within
\* the TTL of its last store or hit returns, with cached = true, one of the
\* values stored under that key.
C8_AllReturn ==
  /\ \A p \in Procs : (pc[p] = "lock") ~> (pc[p] = "idle")
  /\ [](\A p \in Procs :
          (Looked(p) /\ Stored(p) /\ Age(p) <= cacheExpireSeconds) =>
            (loc[p].exists /\ loc[p].answer \in loc[p].prev.written))

\* two requests for one key are in getAnswer together before the key was ever
\* stored: one is about to store it, the other waits for the lock
C8_Witness ==
  \E p, q \in Procs :
    /\ pc[p] = "compute" /\ pc[q] = "lock"
    /\ loc[p].key = loc[q].key /\ Fresh(p).err = ""
    /\ loc[p].key \notin DOMAIN touch

\* ---------------------------------------- claims: the cache called directly
\* the set made just before the last call, when the last call is a get
PrevSet == last.after[Len(last.after)]

\* C3: set(K, V) followed immediately by get(K) returns (V, true).
C3_SetThenGet ==
  (last.op = "get" /\ last.prevOp = "set" /\ PrevSet.key = last.key) =>
    (last.found /\ last.val = PrevSet.val)

\* the set overwrote another value of the key
C3_Witness ==
  /\ last.op = "get" /\ last.prevOp = "set" /\ PrevSet.key = last.key
  /\ last.found /\ last.val = PrevSet.val
  /\ lastSet[last.key].over

\* C4: get(K) of a key K never passed to set returns found = false, whatever
\* calls were made on other keys.
C4_NeverSetNotFound ==
  (last.op = "get" /\ last.key \notin DOMAIN lastSet) => ~last.found

\* another key is in the cache when the key never set is looked up
C4_Witness ==
  /\ last.op = "get" /\ last.key \notin DOMAIN lastSet
  /\ ~last.found /\ DOMAIN cache.hash # {}

\* C5: set(K, V1); set(K, V2); get(K) returns (V2, true).
C5_LastWriteWins ==
  (last.op = "get" /\ Len(last.after) = 2 /\ PrevSet.key = last.key) =>
    (last.found /\ last.val = last.after[2].val)

C5_Witness ==
  /\ last.op = "get" /\ Len(last.after) = 2 /\ PrevSet.key = last.key
  /\ last.after[1].val # last.after[2].val
  /\ last.found /\ last.val = last.after[2].val

\* C6: after set(K, V1) and a later set(K, V2) at t1 on the key still
\* present, a cleanup followed by get(K) returns (V2, true) at every time up
\* to t1 + 60 s.
C6_OverwriteKeepsKey ==
  ( /\ last.op = "get" /\ last.prevOp = "cleanup"
    /\ last.key \in DOMAIN lastSet
    /\ lastSet[last.key].over
    /\ last.at <= lastSet[last.key].at + cacheExpireSeconds ) =>
    (last.found /\ last.val = lastSet[last.key].val)

\* entry e is expired for a cleanup that reads the clock at t
Expired(e, t) == e.time < t - cacheExpireSeconds

\* C10: a cleanup removes every expired entry and no other: afterwards no key
\* of the hash and no list element is expired, every key whose entry was
\* expired is gone, and every key whose entry was not expired is still in the
\* hash with the same entry.
C10_SweepExact ==
  last.op = "cleanup" =>
    /\ \A k \in DOMAIN cache.hash : ~Expired(EntryOf(cache, k), last.at)
    /\ \A i \in 1..Len(cache.list) : ~Expired(cache.list[i], last.at)
    /\ \A k \in DOMAIN last.pre.hash :
         IF Expired(EntryOf(last.pre, k), last.at)
         THEN k \notin DOMAIN cache.hash
         ELSE k \in DOMAIN cache.hash /\ EntryOf(cache, k) = EntryOf(last.pre, k)

\* ------------------------------------------------- claims: errors
\* C11: the cache never stores an error state: when the response to a request
\* is an error (division by zero, invalid operation, or an answer that
\* json.Marshal cannot encode), no entry for the request's key is in the cache
\* when getAnswer returns, and no request served from the cache is answered
\* with an error.
C11_NoErrorStored ==
  \A p \in Procs :
    (pc[p] = "ret" /\ doMath(p) = "error") =>
      /\ loc[p].key \notin DOMAIN cache.hash
      /\ ~loc[p].exists

\* C12: memoization is transparent: every entry of the cache holds op(x, y)
\* for the request (op, x, y) whose key it is stored under, and every call of
\* getAnswer that returns without error returns op(x, y) for its own operands,
\* served from the cache or not.
C12_Transparent ==
  /\ \A i \in 1..Len(cache.list) :
       \E r \in Requests :
         /\ cache.list[i].key = reqString(r[1], r[2], r[3])
         /\ compute(r[1], r[2], r[3]).err = ""
         /\ cache.list[i].answer = compute(r[1], r[2], r[3]).answer
  /\ \A p \in Procs :
       (pc[p] = "ret" /\ loc[p].err = "") => loc[p].answer = Fresh(p).answer

\* a request is served from the cache while another key is stored as well
C12_Witness ==
  \E p \in Procs :
    /\ pc[p] = "ret" /\ loc[p].exists /\ loc[p].err = ""
    /\ loc[p].answer = Fresh(p).answer
    /\ Len(cache.list) = 2

\* ------------------------------------------------- claims: the key
\* C13: the key "op;x;y" is injective and order-sensitive: two requests have
\* the same key only if they have the same op, x and y, and for x # y the
\* keys of (op, x, y) and (op, y, x) differ.
C13_KeyInjective ==
  \A p, q \in Procs :
    (pc[p] = "lock" /\ pc[q] = "lock") =>
      /\ (loc[p].key = loc[q].key) <=> (loc[p].req = loc[q].req)
      /\ ( /\ loc[p].req[1] = loc[q].req[1]
           /\ loc[p].req[2] = loc[q].req[3]
           /\ loc[p].req[3] = loc[q].req[2]
           /\ loc[p].req[2] # loc[p].req[3] ) => loc[p].key # loc[q].key

\* two goroutines ask for divide(1, 2) and divide(2, 1)
C13_Witness ==
  \E p, q \in Procs :
    /\ pc[p] = "lock" /\ pc[q] = "lock"
    /\ loc[p].req = <<"divide", 1, 2>> /\ loc[q].req = <<"divide", 2, 1>>
    /\ loc[p].key = "divide;1;2" /\ loc[q].key = "divide;2;1"

\* ------------------------------------------------- claims: the list
\* C14: the recency order: after every get, set and cleanup the times of the
\* elements of the list are non-decreasing from front to back.
C14_RecencyOrder ==
  \A i \in 1..(Len(cache.list) - 1) : cache.list[i].time <= cache.list[i + 1].time

\* a get has hit the element at the front of a list of two and moved it
\* behind the other one, which is older than the time of the get
C14_Witness ==
  /\ last.op = "get" /\ last.found
  /\ Len(last.pre.list) = 2 /\ last.pre.hash[last.key] = 1
  /\ last.pre.list[2].time > last.pre.list[1].time
  /\ cache.list[2].key = last.key
  /\ cache.list[1].time < cache.list[2].time

\* the keys of the elements of the list
ListKeys(c) == { c.list[i].key : i \in 1..Len(c.list) }

\* C15: the hash and the list hold the same entries after every completed
\* call of getAnswer: the list has one element per key of the hash, the hash
\* maps the key of every element to that element, and every key of the hash
\* is the key of the element it is mapped to.
C15_IndexMatchesList ==
  ((mutex = 0) \/ (\E p \in Procs : pc[p] = "ret")) =>
    /\ Len(cache.list) = Cardinality(DOMAIN cache.hash)
    /\ ListKeys(cache) = DOMAIN cache.hash
    /\ \A k \in DOMAIN cache.hash :
         cache.hash[k] \in 1..Len(cache.list) /\ cache.list[cache.hash[k]].key = k
    /\ \A i \in 1..Len(cache.list) :
         cache.list[i].key \in DOMAIN cache.hash /\ cache.hash[cache.list[i].key] = i

\* a call of getAnswer returns after its cleanup removed an entry, its get
\* missed and its set stored one, while another entry stays in the cache
C15_Witness ==
  \E p \in Procs :
    /\ pc[p] = "ret" /\ ~loc[p].exists /\ loc[p].err = ""
    /\ Len(loc[p].start.list) = 2
    /\ Len(cleanup(loc[p].start, loc[p].tC).list) = 1
    /\ Len(cache.list) = 2

\* ------------------------------------------------- claims: no mutex
\* C16: without the mutex, two requests for one key that both miss and both
\* call set do not store the key twice: the list holds a single element for
\* the key, and the key is served from the cache for as long as no more than
\* 60 s have passed since it was last stored or hit.
C16_SingleEntryServed ==
  /\ \A k \in ListKeys(cache) :
       Cardinality({ i \in 1..Len(cache.list) : cache.list[i].key = k }) = 1
  /\ \A p \in Procs :
       (Looked(p) /\ Stored(p) /\ now - loc[p].prev.at <= cacheExpireSeconds) =>
         loc[p].exists

\* ------------------------------------------------- claims: one batch
\* C17: with the mutex, concurrent misses are collapsed: when the concurrent
\* requests of a batch for one key have all returned, each of them having run
\* its cleanup no more than 60 s after the key was last stored or hit, exactly
\* one of them has returned cached = false, the others cached = true, and all
\* of them the same answer op(x, y).
C17_OneMiss ==
  ( /\ \A p \in Procs : pc[p] = "done"
    /\ \A p \in Procs : Stored(p) => Age(p) <= cacheExpireSeconds ) =>
      /\ Cardinality({ p \in Procs : ~loc[p].exists }) = 1
      /\ \A p \in Procs : loc[p].err = "" /\ loc[p].answer = Fresh(p).answer

\* the batch has returned, with one miss and a hit made some time after it
C17_Witness ==
  /\ \A p \in Procs : pc[p] = "done"
  /\ \E p, q \in Procs :
       /\ ~loc[p].exists /\ loc[q].exists
       /\ loc[q].tC > loc[p].tC /\ Age(q) <= cacheExpireSeconds

\* ------------------------------------------------- claims: error paths
\* C18: the error paths of getAnswer release the lock and insert nothing: when
\* getAnswer is about to return "Cannot divide by zero" or "Invalid operation"
\* the cache is what cleanup alone made of the cache the call found (no new
\* key, no changed time), and once it has returned the mutex is free.
C18_ErrorPath ==
  /\ [](\A p \in Procs :
         (pc[p] = "ret" /\ loc[p].err # "") =>
           /\ loc[p].err \in {"Cannot divide by zero", "Invalid operation"}
           /\ cache = cleanup(loc[p].start, loc[p].tC)
           /\ DOMAIN cache.hash \subseteq DOMAIN loc[p].start.hash
           /\ \A k \in DOMAIN cache.hash :
                EntryOf(cache, k) = EntryOf(loc[p].start, k))
  /\ [][\A p \in Procs :
         (pc[p] = "ret" /\ loc[p].err # "" /\ pc'[p] = "idle") => mutex' = 0]_vars

\* a call is about to return an error after its cleanup removed one entry and
\* left another in the cache
C18_Witness ==
  \E p \in Procs :
    /\ pc[p] = "ret" /\ loc[p].err # ""
    /\ Len(loc[p].start.list) = 2 /\ Len(cache.list) = 1

\* ------------------------------------------------- claims: the frame of get
\* C19: the frame of get: a get of a key that is not in the hash changes
\* neither the hash nor the list; a get of a key that is in the hash changes
\* only the time and the list position of that key's entry: the entry keeps
\* its key and value, the hash keeps its keys, and the other elements of the
\* list keep their values, their times and their order.
C19_GetFrame ==
  (last.op = "get") =>
    LET pre == last.pre
        k == last.key
    IN IF k \notin DOMAIN pre.hash
       THEN ~last.found /\ cache = pre
       ELSE /\ last.found
            /\ DOMAIN cache.hash = DOMAIN pre.hash
            /\ EntryOf(cache, k) = [EntryOf(pre, k) EXCEPT !.time = last.at]
            /\ RemoveAt(cache.list, cache.hash[k]) = RemoveAt(pre.list, pre.hash[k])
            /\ \A j \in (DOMAIN pre.hash) \ {k} : EntryOf(cache, j) = EntryOf(pre, j)

\* a get has hit the older of two entries some time after it was stored
C19_Witness ==
  /\ last.op = "get" /\ last.found
  /\ Len(last.pre.list) = 2 /\ last.pre.hash[last.key] = 1
  /\ last.pre.list[1].key # last.pre.list[2].key
  /\ last.at > last.pre.list[1].time
  /\ cache # last.pre

\* ------------------------------------------------- claims: the two versions
\* C20: the list-ordered cache and the earlier full-scan cache are
\* observationally equivalent: over every sequence of serial requests that
\* read the same clock, both versions answer every request with the same
\* answer and the same cached flag, and hold the same keys after it.
C20_SameObservations ==
  /\ out.list = out.scan
  /\ DOMAIN cache.hash = DOMAIN flat

\* a request was served from the cache by both versions while its cleanup
\* removed another, expired key
C20_Witness ==
  /\ out.list.cached /\ out.scan.cached
  /\ Cardinality(out.before) = 2
  /\ Cardinality(DOMAIN flat) = 1
  /\ DOMAIN cache.hash = DOMAIN flat

=============================================================================
